---- MODULE Spec2Model ----
(***************************************************************************)
(* The Tombola family of 11-iface-abc.ipynb: the abstract base class       *)
(* Tombola with its two concrete default methods (loaded, inspect), and    *)
(* the three pickers BingoCage, LotteryBlower and TomboList.               *)
(*                                                                         *)
(* One picker instance is modelled.  Its class is chosen at construction   *)
(* and never changes.  The caller-visible operations are load, pick,       *)
(* inspect and loaded, and for a BingoCage the call of the instance.       *)
(* The default Tombola.inspect is a loop, and the                          *)
(* model follows it one self.pick() at a time (pc = "drain"), then the     *)
(* single self.load(items) and the return (pc = "reload").                 *)
(***************************************************************************)
EXTENDS Integers, Sequences, FiniteSets, TLC

\* ---------------------------------------------------------------- bounds
\* items are the integers 1..MaxItem
MaxItem == 2
\* longest iterable handed to a constructor or to load
MaxArg == 2
\* number of load calls made by the caller on one instance
MaxLoads == 1

Items == 1..MaxItem
\* Python's None, for "no item returned"
None == 0
Iterables == UNION {[1..n -> Items] : n \in 0..MaxArg}
Classes == {"BingoCage", "LotteryBlower", "TomboList"}

\* ------------------------------------------------------ multisets of items
Count(s) == [v \in Items |-> Cardinality({i \in DOMAIN s : s[i] = v})]
EmptyBag == [v \in Items |-> 0]
BagAdd(a, b) == [v \in Items |-> a[v] + b[v]]
BagSub(a, b) == [v \in Items |-> a[v] - b[v]]
RECURSIVE BagSizeUpTo(_, _)
BagSizeUpTo(a, n) == IF n = 0 THEN 0 ELSE a[n] + BagSizeUpTo(a, n - 1)
BagSize(a) == BagSizeUpTo(a, MaxItem)

\* ------------------------------------------------------- library functions
\* random.shuffle(x): x becomes any arrangement of the same elements
shuffle(s) == {t \in [1..Len(s) -> Items] : Count(t) = Count(s)}

\* list.pop(position), positions counted from 1 here
pop(s, p) == [item |-> s[p],
              rest |-> SubSeq(s, 1, p - 1) \o SubSeq(s, p + 1, Len(s))]

\* sorted(iterable): ascending order, equal items kept
RECURSIVE insert(_, _)
insert(x, s) ==
  IF s = <<>> THEN <<x>>
  ELSE IF x <= Head(s) THEN <<x>> \o s
  ELSE <<Head(s)>> \o insert(x, Tail(s))
RECURSIVE sorted(_)
sorted(s) == IF s = <<>> THEN <<>> ELSE insert(Head(s), sorted(Tail(s)))

\* bool(sequence)
bool(s) == Len(s) > 0

\* --------------------------------------------------------------- BingoCage
\* load: extend, then shuffle the whole list
BingoCage_load(s, it) == {[err |-> "none", rest |-> t] : t \in shuffle(s \o it)}

\* __init__: empty list, then self.load(items)
BingoCage_init(it) == {r.rest : r \in BingoCage_load(<<>>, it)}

\* variant: the IndexError of list.pop is not translated
BingoCage_pick_IndexError(s) ==
  IF Len(s) = 0
  THEN {[err |-> "IndexError", item |-> None, rest |-> s]}
  ELSE {[err |-> "none", item |-> pop(s, Len(s)).item, rest |-> pop(s, Len(s)).rest]}

\* variant: pop(0) instead of pop()
BingoCage_pick_first(s) ==
  IF Len(s) = 0
  THEN {[err |-> "LookupError", item |-> None, rest |-> s]}
  ELSE {[err |-> "none", item |-> pop(s, 1).item, rest |-> pop(s, 1).rest]}

\* variant: reports empty while one item is still inside
BingoCage_pick_early(s) ==
  IF Len(s) <= 1
  THEN {[err |-> "LookupError", item |-> None, rest |-> s]}
  ELSE {[err |-> "none", item |-> pop(s, Len(s)).item, rest |-> pop(s, Len(s)).rest]}

\* pick: pop the last element; IndexError becomes LookupError
BingoCage_pick(s) ==
  IF Len(s) = 0
  THEN {[err |-> "LookupError", item |-> None, rest |-> s]}
  ELSE {[err |-> "none", item |-> pop(s, Len(s)).item, rest |-> pop(s, Len(s)).rest]}

\* __call__: "self.pick()" with no return: pick's item (`taken`) is removed
\* from the list, the caller receives None; pick's LookupError passes through
BingoCage_call(s) ==
  {[err |-> r.err, item |-> None, taken |-> r.item, rest |-> r.rest] :
     r \in BingoCage_pick(s)}

\* ----------------------------------------------------------- LotteryBlower
LotteryBlower_init(it) == {it}

LotteryBlower_load(s, it) == {[err |-> "none", rest |-> s \o it]}

\* pick: randrange(len) raises ValueError on 0, turned into LookupError
LotteryBlower_pick(s) ==
  IF Len(s) = 0
  THEN {[err |-> "LookupError", item |-> None, rest |-> s]}
  ELSE {[err |-> "none", item |-> pop(s, p).item, rest |-> pop(s, p).rest] : p \in 1..Len(s)}

LotteryBlower_loaded(s) == bool(s)

LotteryBlower_inspect(s) == sorted(s)

\* --------------------------------------------------------------- TomboList
\* TomboList(iterable) is list(iterable)
TomboList_init(it) == {it}

TomboList_pick(s) ==
  IF bool(s)
  THEN {[err |-> "none", item |-> pop(s, p).item, rest |-> pop(s, p).rest] : p \in 1..Len(s)}
  ELSE {[err |-> "LookupError", item |-> None, rest |-> s]}

\* "load = list.extend" sits inside the body of pick, after the if/else
\* that always returns or raises: the class has no attribute load, and
\* t.load(x) raises AttributeError without touching the list.
TomboList_load(s, it) == {[err |-> "AttributeError", rest |-> s]}

TomboList_loaded(s) == bool(s)

TomboList_inspect(s) == sorted(s)

\* -------------------------------------------------- Tombola default methods
\* variant: loaded() ignores what inspect() returned
Tombola_loaded_always(inspected) == TRUE

\* loaded: bool(self.inspect())
Tombola_loaded(inspected) == bool(inspected)

\* variant: the except clause names the wrong exception
Tombola_inspect_except_IndexError(e) == e = "IndexError"

\* inspect, "except LookupError": the exceptions the loop stops at
Tombola_inspect_except(e) == e = "LookupError"

\* variant: tuple(items) without the sort
Tombola_inspect_result_unsorted(collected) == collected

\* inspect, the value returned once the drain loop has filled `items`
Tombola_inspect_result(collected) == sorted(collected)

\* ---------------------------------------------------------- method lookup
init(c, it) ==
  CASE c = "BingoCage" -> BingoCage_init(it)
    [] c = "LotteryBlower" -> LotteryBlower_init(it)
    [] c = "TomboList" -> TomboList_init(it)

load(c, s, it) ==
  CASE c = "BingoCage" -> BingoCage_load(s, it)
    [] c = "LotteryBlower" -> LotteryBlower_load(s, it)
    [] c = "TomboList" -> TomboList_load(s, it)

pick(c, s) ==
  CASE c = "BingoCage" -> BingoCage_pick(s)
    [] c = "LotteryBlower" -> LotteryBlower_pick(s)
    [] c = "TomboList" -> TomboList_pick(s)

\* classes that inherit inspect and loaded from Tombola
InheritsDefaults(c) == c = "BingoCage"

\* ------------------------------------------------------------------ state
VARIABLES
  impl,        \* class of the instance
  items,       \* its storage: _items, _balls, or the list itself
  pc,          \* "idle", or the position inside Tombola.inspect
  op,          \* the caller's operation, last finished or in progress
  arg,         \* the iterable of the last load call (or of the constructor)
  pre,         \* the storage when the caller's operation was called
  err,         \* exception the caller's operation ended with, or "none"
  retItem,     \* value returned by pick
  retSeq,      \* value returned by inspect
  retBool,     \* value returned by loaded
  prevInspect, \* result of the inspect call made just before this one
  collected,   \* local variable `items` of Tombola.inspect
  okPicks,     \* self.pick() calls of the running inspect that returned
  failPicks,   \* self.pick() calls of the running inspect that raised
  reloads,     \* self.load() calls of the running inspect
  requested,   \* history: multiset handed to the constructor and to load
  picked,      \* history: multiset returned by pick to the caller or to __call__
  nLoads       \* history: number of load calls by the caller

vars == <<impl, items, pc, op, arg, pre, err, retItem, retSeq, retBool,
          prevInspect, collected, okPicks, failPicks, reloads,
          requested, picked, nLoads>>

\* marks "the previous operation was not an inspect"
NoSnapshot == <<None>>

Init ==
  /\ impl \in Classes
  /\ arg \in Iterables
  /\ items \in init(impl, arg)
  /\ pc = "idle"
  /\ op = "init"
  /\ pre = <<>>
  /\ err = "none"
  /\ retItem = None
  /\ retSeq = <<>>
  /\ retBool = FALSE
  /\ prevInspect = NoSnapshot
  /\ collected = <<>>
  /\ okPicks = 0
  /\ failPicks = 0
  /\ reloads = 0
  /\ requested = Count(arg)
  /\ picked = EmptyBag
  /\ nLoads = 0

\* the caller calls load(it)
Load(it) ==
  /\ pc = "idle"
  /\ nLoads < MaxLoads
  /\ \E r \in load(impl, items, it) :
       /\ items' = r.rest
       /\ err' = r.err
  /\ op' = "load"
  /\ arg' = it
  /\ pre' = items
  /\ retItem' = None
  /\ retSeq' = <<>>
  /\ retBool' = FALSE
  /\ prevInspect' = NoSnapshot
  /\ collected' = <<>>
  /\ okPicks' = 0
  /\ failPicks' = 0
  /\ reloads' = 0
  /\ requested' = BagAdd(requested, Count(it))
  /\ nLoads' = nLoads + 1
  /\ UNCHANGED <<impl, pc, picked>>

\* the caller calls pick()
Pick ==
  /\ pc = "idle"
  /\ \E r \in pick(impl, items) :
       /\ items' = r.rest
       /\ err' = r.err
       /\ retItem' = r.item
       /\ picked' = IF r.err = "none" THEN BagAdd(picked, Count(<<r.item>>)) ELSE picked
  /\ op' = "pick"
  /\ pre' = items
  /\ retSeq' = <<>>
  /\ retBool' = FALSE
  /\ prevInspect' = NoSnapshot
  /\ collected' = <<>>
  /\ okPicks' = 0
  /\ failPicks' = 0
  /\ reloads' = 0
  /\ UNCHANGED <<impl, pc, arg, requested, nLoads>>

\* the caller calls the instance: cage()
Call ==
  /\ pc = "idle"
  /\ impl = "BingoCage"
  /\ \E r \in BingoCage_call(items) :
       /\ items' = r.rest
       /\ err' = r.err
       /\ retItem' = r.item
       /\ picked' = IF r.err = "none" THEN BagAdd(picked, Count(<<r.taken>>)) ELSE picked
  /\ op' = "call"
  /\ pre' = items
  /\ retSeq' = <<>>
  /\ retBool' = FALSE
  /\ prevInspect' = NoSnapshot
  /\ collected' = <<>>
  /\ okPicks' = 0
  /\ failPicks' = 0
  /\ reloads' = 0
  /\ UNCHANGED <<impl, pc, arg, requested, nLoads>>

\* entry into Tombola.inspect: items = []
Tombola_inspect_enter ==
  /\ pc' = "drain"
  /\ collected' = <<>>
  /\ okPicks' = 0
  /\ failPicks' = 0
  /\ reloads' = 0
  /\ err' = "none"
  /\ retItem' = None
  /\ retSeq' = <<>>
  /\ retBool' = FALSE
  /\ UNCHANGED items

\* the caller calls inspect()
Inspect ==
  /\ pc = "idle"
  /\ op' = "inspect"
  /\ pre' = items
  /\ prevInspect' = IF op = "inspect" THEN retSeq ELSE NoSnapshot
  /\ IF InheritsDefaults(impl)
     THEN Tombola_inspect_enter
     ELSE /\ retSeq' = (IF impl = "LotteryBlower"
                        THEN LotteryBlower_inspect(items)
                        ELSE TomboList_inspect(items))
          /\ err' = "none"
          /\ retItem' = None
          /\ retBool' = FALSE
          /\ collected' = <<>>
          /\ okPicks' = 0
          /\ failPicks' = 0
          /\ reloads' = 0
          /\ UNCHANGED <<items, pc>>
  /\ UNCHANGED <<impl, arg, requested, picked, nLoads>>

\* the caller calls loaded()
Loaded ==
  /\ pc = "idle"
  /\ op' = "loaded"
  /\ pre' = items
  /\ prevInspect' = NoSnapshot
  /\ IF InheritsDefaults(impl)
     THEN Tombola_inspect_enter
     ELSE /\ retBool' = (IF impl = "LotteryBlower"
                         THEN LotteryBlower_loaded(items)
                         ELSE TomboList_loaded(items))
          /\ err' = "none"
          /\ retItem' = None
          /\ retSeq' = <<>>
          /\ collected' = <<>>
          /\ okPicks' = 0
          /\ failPicks' = 0
          /\ reloads' = 0
          /\ UNCHANGED <<items, pc>>
  /\ UNCHANGED <<impl, arg, requested, picked, nLoads>>

\* one turn of the while loop of Tombola.inspect:
\* items.append(self.pick()), or break on LookupError
Tombola_inspect_pick ==
  /\ pc = "drain"
  /\ \E r \in pick(impl, items) :
       /\ items' = r.rest
       /\ IF r.err = "none"
          THEN /\ collected' = Append(collected, r.item)
               /\ okPicks' = okPicks + 1
               /\ UNCHANGED <<failPicks, pc, err>>
          ELSE /\ failPicks' = failPicks + 1
               /\ UNCHANGED <<collected, okPicks>>
               /\ IF Tombola_inspect_except(r.err)
                  THEN pc' = "reload" /\ UNCHANGED err
                  ELSE pc' = "idle" /\ err' = r.err
  /\ UNCHANGED <<impl, op, arg, pre, retItem, retSeq, retBool,
                 prevInspect, reloads, requested, picked, nLoads>>

\* after the loop: self.load(items); return tuple(sorted(items)),
\* which loaded() turns into a bool
Tombola_inspect_load ==
  /\ pc = "reload"
  /\ \E r \in load(impl, items, collected) :
       /\ items' = r.rest
       /\ err' = r.err
  /\ reloads' = reloads + 1
  /\ pc' = "idle"
  /\ IF op = "inspect"
     THEN /\ retSeq' = Tombola_inspect_result(collected)
          /\ UNCHANGED retBool
     ELSE /\ retBool' = Tombola_loaded(Tombola_inspect_result(collected))
          /\ UNCHANGED retSeq
  /\ UNCHANGED <<impl, op, arg, pre, retItem, prevInspect, collected,
                 okPicks, failPicks, requested, picked, nLoads>>

Next ==
  \/ \E it \in Iterables : Load(it)
  \/ Pick
  \/ Call
  \/ Inspect
  \/ Loaded
  \/ Tombola_inspect_pick
  \/ Tombola_inspect_load

Spec == Init /\ [][Next]_vars

\* Python runs a call to completion: a started inspect loop keeps stepping
FairSpec == Spec /\ WF_vars(Tombola_inspect_pick) /\ WF_vars(Tombola_inspect_load)

\* ------------------------------------------------------------ properties
IsSorted(s) == \A i \in 1..(Len(s) - 1) : s[i] <= s[i + 1]

\* C1: for every class, after S is loaded with load(S) into an instance
\* constructed empty, picking until LookupError returns exactly |S| items
\* whose multiset is S.
C1_DrainReturnsWhatWasLoaded ==
  (op = "pick" /\ err = "LookupError" /\ nLoads = 1 /\ requested = Count(arg))
    => (picked = Count(arg) /\ BagSize(picked) = Len(arg))

\* C2: inspect() on a loaded instance returns its contents in sorted order,
\* returns the same value as an inspect() made just before it, and leaves
\* the multiset of stored items as it was.
C2_InspectSortedIdempotentNonDestructive ==
  (pc = "idle" /\ op = "inspect" /\ pre # <<>>) =>
    /\ err = "none"
    /\ IsSorted(retSeq)
    /\ Count(retSeq) = Count(pre)
    /\ Count(items) = Count(pre)
    /\ (prevInspect # NoSnapshot => retSeq = prevInspect)

C2_Witness ==
  /\ impl = "BingoCage" /\ pc = "idle" /\ op = "inspect"
  /\ Len(pre) >= 2 /\ items # pre
  /\ retSeq[1] # retSeq[Len(retSeq)]
  /\ prevInspect = retSeq

\* C3: loaded() returns False exactly when storage is empty, and a pick()
\* made right after loaded() raises LookupError exactly when loaded()
\* returned False.
C3_LoadedIffPickSucceeds ==
  /\ []((pc = "idle" /\ op = "loaded") => (retBool <=> Len(items) > 0))
  /\ [][(pc = "idle" /\ op = "loaded" /\ op' = "pick")
          => ((~retBool) <=> (err' = "LookupError"))]_vars

C3_Witness ==
  /\ impl = "BingoCage" /\ pc = "idle" /\ op = "loaded"
  /\ retBool = FALSE /\ BagSize(picked) >= 2

\* C4: pick() on empty storage raises LookupError and nothing else and
\* leaves the storage empty; LookupError reaches the caller only from
\* pick() (called directly, or by BingoCage.__call__, whose body is a call
\* of pick), and only when the storage was empty.
C4_EmptyPickRaisesLookupError ==
  /\ (err = "LookupError" =>
        (op \in {"pick", "call"} /\ pc = "idle" /\ pre = <<>> /\ items = <<>>))
  /\ ((op = "pick" /\ pre = <<>>) =>
        (err = "LookupError" /\ items = <<>> /\ retItem = None))

C4_Witness ==
  /\ op = "pick" /\ err = "LookupError" /\ BagSize(picked) >= 2
  /\ impl = "BingoCage"

\* C5: TomboList.load(items) is list.extend: it does not fail and leaves
\* the previous contents followed by items.
C5_TomboListLoadExtends ==
  (impl = "TomboList" /\ op = "load") => (err = "none" /\ items = pre \o arg)

\* C6: for every class, load() of an empty collection does not fail and
\* changes neither the multiset of stored items nor what inspect() and
\* loaded() return.
C6_EmptyLoadIsNoOp ==
  (pc = "idle" /\ op = "load" /\ arg = <<>>) =>
    /\ err = "none"
    /\ Count(items) = Count(pre)
    /\ sorted(items) = sorted(pre)
    /\ bool(items) = bool(pre)

\* C7: inspect() and loaded() never end with LookupError; the default
\* inspect stops its loop at the LookupError of self.pick(); on empty storage
\* inspect() returns the empty tuple and loaded() returns False.
C7_InspectNeverRaisesEmpty ==
  /\ (op \in {"inspect", "loaded"} => err = "none")
  /\ (pc = "reload" => failPicks = 1)
  /\ ((pc = "idle" /\ op = "inspect" /\ pre = <<>>) => retSeq = <<>>)
  /\ ((pc = "idle" /\ op = "loaded" /\ pre = <<>>) => retBool = FALSE)

C7_Witness ==
  /\ impl = "BingoCage" /\ pc = "idle" /\ op = "inspect"
  /\ pre = <<>> /\ failPicks = 1 /\ reloads = 1

\* C8: for every class, between calls the multiset of stored items is
\* everything handed to the constructor and to load, minus everything
\* pick returned.
C8_StoredIsLoadedMinusPicked ==
  pc = "idle" => Count(items) = BagSub(requested, picked)

\* C9: BingoCage.load(items) leaves an arrangement of the old storage
\* followed by items; a successful BingoCage.pick() returns the last
\* element and leaves the elements before it as they were.
C9_BingoCageLoadAndPick ==
  (impl = "BingoCage" /\ pc = "idle") =>
    /\ (op = "load" =>
          /\ err = "none"
          /\ Len(items) = Len(pre) + Len(arg)
          /\ Count(items) = BagAdd(Count(pre), Count(arg)))
    /\ ((op = "pick" /\ pre # <<>>) =>
          /\ err = "none"
          /\ retItem = pre[Len(pre)]
          /\ items = SubSeq(pre, 1, Len(pre) - 1))

C9_Witness ==
  /\ impl = "BingoCage" /\ op = "pick" /\ nLoads = 1
  /\ Len(pre) >= 3 /\ retItem # pre[1]

\* C10: the default inspect on n items makes n successful picks, then one
\* failing pick, then one load of the n collected items, and returns.
C10_DefaultInspectTerminates ==
  /\ [](pc = "drain" =>
          /\ failPicks = 0 /\ reloads = 0
          /\ okPicks = Len(collected)
          /\ okPicks + Len(items) = Len(pre))
  /\ [](pc = "reload" =>
          /\ okPicks = Len(pre) /\ failPicks = 1 /\ reloads = 0
          /\ Len(collected) = Len(pre))
  /\ []((pc = "idle" /\ op \in {"inspect", "loaded"} /\ InheritsDefaults(impl)) =>
          /\ okPicks = Len(pre) /\ failPicks = 1 /\ reloads = 1
          /\ Len(collected) = Len(pre)
          /\ Count(items) = Count(collected))
  /\ ((pc # "idle") ~> (pc = "idle"))

C10_Witness ==
  /\ impl = "BingoCage" /\ pc = "idle" /\ op = "loaded"
  /\ Len(pre) >= 3 /\ okPicks = Len(pre) /\ failPicks = 1 /\ reloads = 1
\* C11: calling a BingoCage is the same as pick(): on a non-empty cage it
\* removes one item and returns that item, on an empty cage it raises
\* LookupError.
C11_CallIsPick ==
  op = "call" =>
    IF pre # <<>>
    THEN /\ err = "none"
         /\ items = SubSeq(pre, 1, Len(pre) - 1)
         /\ retItem = pre[Len(pre)]
    ELSE /\ err = "LookupError"
         /\ items = <<>>
====
